---- MODULE Spec2Model ----
(***************************************************************************)
(* The low-stock replenishment mutation of crm/schema.py                   *)
(* (UpdateLowStockProducts.mutate) run by several concurrent requests      *)
(* against one product table (crm/models.py, Product).                     *)
(*                                                                         *)
(* Every database statement of mutate is one atomic step: the SELECT that  *)
(* the first iteration of the lazy queryset issues, the UPDATE of one row, *)
(* the SELECT of refresh_from_db.  Statements of different requests        *)
(* interleave freely.  A statement may raise (database error, row gone).   *)
(* The timestamp field of the response is not modelled.                    *)
(***************************************************************************)
EXTENDS Integers, Sequences, FiniteSets, TLC

\* ---------------------------------------------------------------- bounds
NumProducts == 2
NumCalls == 3

\* ------------------------------------------------------ program constants
DefaultThreshold == 10
DefaultIncrementBy == 10

Products == 1..NumProducts
\* Two requests executing mutate at the same time.
Runs == {1, 2}

\* Inputs of the model: stocks a validated Product row can hold (empty, and
\* exactly at the default threshold), and the GraphQL Int arguments of the
\* mutation (negative, zero, default).
InitStockValues == {0, DefaultThreshold}
ThresholdValues == {-1, 0, DefaultThreshold}
IncrementValues == {0 - DefaultIncrementBy, 0, DefaultIncrementBy}
FetchErrors == {"database is locked", "connection refused"}

None == "<None>"
NoFetch == <<>>

\* createCustomer requests executing at the same time, and the e-mail
\* addresses they ask for.
Calls == 1..NumCalls
Emails == {"a@example.com", "b@example.com"}

\* A request that has not entered mutate.  id is <<>> for None; taken and
\* stored are history: whether the e-mail was in the table when the
\* request's last statement ran, and the ids of the rows it inserted.
IdleCall ==
    [pc |-> "idle", email |-> None, error |-> None, id |-> <<>>, message |-> None,
     passedCheck |-> FALSE, taken |-> FALSE, stored |-> {}]

VARIABLES
    MODELS_AVAILABLE,       \* schema.py module flag, fixed when it is imported
    stock,                  \* Product.stock column, by product id
    storeOrder,             \* row order the store uses for ORDER BY name
    pc,                     \* position of each request inside mutate
    args,                   \* threshold, increment_by, dry_run of each request
    low_stock_products,     \* result cache of the queryset, per request
    idx,                    \* position of the committed loop in that cache
    updated_products_data,  \* outcome records accumulated so far
    updated_count,          \* success counter of the committed loop
    response,               \* the summary mutate returned, or None
    \* history variables (not program state)
    initStock,              \* stock of every product before any request
    stockAtFetch,           \* stock column as the request's SELECT saw it
    writesAtFetch,          \* number of UPDATEs applied before that SELECT
    appliedBy,              \* products whose UPDATE of this request succeeded
    failed,                 \* products whose loop body raised in this request
    fetchError,             \* cause raised by the request's SELECT, or None
    noArgs,                 \* the request gave no argument: graphene's defaults
    query,                  \* the lowStockProducts query: arguments and result
    low_stock_log,          \* /tmp/low_stock_updates_log.txt: the blocks written
    job,                    \* last invocation of the cron job update_low_stock
    customers,              \* Customer table: rows in the order of their INSERT
    create                  \* the createCustomer requests: position and result

vars == <<MODELS_AVAILABLE, stock, storeOrder, pc, args, low_stock_products,
          idx, updated_products_data, updated_count, response,
          initStock, stockAtFetch, writesAtFetch, appliedBy, failed,
          fetchError, noArgs, query, low_stock_log, job, customers, create>>

\* Left alone by every step of mutate.
progVars == <<MODELS_AVAILABLE, storeOrder, initStock, query, low_stock_log, job,
              customers, create>>
\* Left alone by the mutation and by the query.
cronVars == <<low_stock_log, job>>
\* Left alone by the mutation, by the query and by the job.
customerVars == <<customers, create>>
\* Left alone by the query.
mutateVars == <<pc, args, low_stock_products, idx, updated_products_data,
                updated_count, response, stockAtFetch, writesAtFetch,
                appliedBy, failed, fetchError, noArgs>>

\* ----------------------------------------------------------------- helpers
RECURSIVE SumOver(_, _)
SumOver(S, f) ==
    IF S = {} THEN 0
    ELSE LET x == CHOOSE y \in S : TRUE IN f[x] + SumOver(S \ {x}, f)

Map(s, Op(_)) == [i \in 1..Len(s) |-> Op(s[i])]

Permutations_(S) ==
    {s \in [1..Cardinality(S) -> S] : \A i, j \in 1..Cardinality(S) : s[i] = s[j] => i = j}

\* Product.name of the rows: two neighbouring ids share a name, so that
\* ORDER BY name leaves their relative order to the store.
NameOf(p) == (p + 1) \div 2

\* Meta.ordering = ['name']: any row order that is sorted by name.
OrderedByName(s) == \A i, j \in 1..Len(s) : i < j => NameOf(s[i]) <= NameOf(s[j])

\* stock__lt=threshold
Eligible_lte(s, threshold) == s <= threshold
Eligible(s, threshold) == s < threshold

\* A Product instance as loaded by a SELECT.
ProductInstance(p) == [id |-> p, name |-> NameOf(p), stock |-> stock[p]]

\* Product.objects.filter(stock__lt=threshold), evaluated now.
FindBelowThreshold(threshold) ==
    Map(SelectSeq(storeOrder, LAMBDA p : Eligible(stock[p], threshold)), ProductInstance)

\* stock=F('stock') + increment_by, evaluated by the store on the row's
\* current value; instanceStock is the stale value held by the request.
ReadComputeWrite(dbStock, instanceStock, increment_by) == instanceStock + increment_by
AtomicIncrement(dbStock, instanceStock, increment_by) == dbStock + increment_by

\* Rows the per-item UPDATE applies to: filter(id=product.id), whatever the
\* row's stock has become since the fetch.
UpdateMatches_below(dbStock, threshold) == dbStock < threshold
UpdateMatches(dbStock, threshold) == TRUE

\* One entry of updated_products_data.
Outcome(product, old_stock, new_stock) ==
    [id |-> ToString(product.id), name |-> product.name, sku |-> "N/A",
     old_stock |-> old_stock, new_stock |-> new_stock, category |-> None]

\* Dry-run projection of one product.
DryOutcome_stale(product, increment_by) ==
    Outcome(product, product.stock, product.stock)
DryOutcome(product, increment_by) ==
    Outcome(product, product.stock, product.stock + increment_by)

UpdateLowStockProductsResponse(success, message, count, products) ==
    [success |-> success, message |-> message,
     updated_count |-> count, updated_products |-> products]

TestModeMessage == "Running in test mode (models not available)"
NoProductsMessage == "No products found below the stock threshold"

DryRunMessage_fixed(n, threshold) ==
    IF n = 0 THEN NoProductsMessage
    ELSE "Dry run: Would update " \o ToString(n)
            \o " products below stock threshold " \o ToString(threshold)
DryRunMessage(n, threshold) ==
    "Dry run: Would update " \o ToString(n)
        \o " products below stock threshold " \o ToString(threshold)

CommittedMessage_always(n) ==
    "Successfully updated " \o ToString(n) \o " low-stock products"
CommittedMessage(n) ==
    IF n = 0 THEN NoProductsMessage
    ELSE "Successfully updated " \o ToString(n) \o " low-stock products"

ErrorMessage(cause) == "Error updating low-stock products: " \o cause

\* Engine-level failure: the outer except of mutate.
FailureResponse_partial(cause, count, products) ==
    UpdateLowStockProductsResponse(TRUE, ErrorMessage(cause), count, products)
FailureResponse(cause, count, products) ==
    UpdateLowStockProductsResponse(FALSE, ErrorMessage(cause), 0, <<>>)

\* Per-item except: `continue` moves to the next product of the cache.
AfterItemError_retry(i, n) == i
AfterItemError_break(i, n) == n + 1
AfterItemError(i, n) == i + 1

\* Stock column after a dry run has looked at the eligible products.
DryRunStore_commit(st, products, increment_by) ==
    [p \in Products |->
        IF \E i \in 1..Len(products) : products[i].id = p
        THEN st[p] + increment_by ELSE st[p]]
DryRunStore(st, products, increment_by) == st

\* Arguments the mutation runs with when the request names none
\* (default_value of Arguments, defaults of mutate's signature).
DefaultArgs_dry ==
    [threshold |-> DefaultThreshold, increment_by |-> DefaultIncrementBy,
     dry_run |-> TRUE]
DefaultArgs ==
    [threshold |-> DefaultThreshold, increment_by |-> DefaultIncrementBy,
     dry_run |-> FALSE]

\* Stock column after the lowStockProducts query has been resolved.
QueryStore_restock(st, products) ==
    [p \in Products |->
        IF \E i \in 1..Len(products) : products[i].id = p
        THEN st[p] + DefaultIncrementBy ELSE st[p]]
QueryStore(st, products) == st

\* threshold of resolve_low_stock_products when the query names none.
QueryDefaultThreshold == DefaultThreshold

\* Number of UPDATE statements applied to the store so far.
WriteCount == SumOver(Runs, [r \in Runs |-> Cardinality(appliedBy[r])])

\* ------------------------------------------------------------------- Init
Init ==
    /\ MODELS_AVAILABLE \in BOOLEAN
    /\ stock \in [Products -> InitStockValues]
    /\ storeOrder \in {s \in Permutations_(Products) : OrderedByName(s)}
    /\ pc = [r \in Runs |-> "idle"]
    /\ args = [r \in Runs |-> [threshold |-> DefaultThreshold,
                               increment_by |-> DefaultIncrementBy,
                               dry_run |-> FALSE]]
    /\ low_stock_products = [r \in Runs |-> <<>>]
    /\ idx = [r \in Runs |-> 1]
    /\ updated_products_data = [r \in Runs |-> <<>>]
    /\ updated_count = [r \in Runs |-> 0]
    /\ response = [r \in Runs |-> None]
    /\ initStock = stock
    /\ stockAtFetch = [r \in Runs |-> NoFetch]
    /\ writesAtFetch = [r \in Runs |-> 0]
    /\ appliedBy = [r \in Runs |-> {}]
    /\ failed = [r \in Runs |-> {}]
    /\ fetchError = [r \in Runs |-> None]
    /\ noArgs = [r \in Runs |-> FALSE]
    /\ query = [state |-> "idle", given |-> FALSE, threshold |-> DefaultThreshold,
                result |-> <<>>, stockAt |-> stock, writesAt |-> 0]
    /\ low_stock_log = <<>>
    /\ job = [runs |-> 0, api |-> <<>>, result |-> None, logBefore |-> 0]
    /\ customers = <<>>
    /\ create = [c \in Calls |-> IdleCall]

\* ---------------------------------------------------------------- actions

\* mutate is entered with its arguments; models available: the lazy
\* queryset and the empty accumulators are set up, nothing is read yet.
Call(r, threshold, increment_by, dry_run) ==
    /\ pc[r] = "idle"
    /\ MODELS_AVAILABLE
    /\ args' = [args EXCEPT ![r] = [threshold |-> threshold,
                                    increment_by |-> increment_by,
                                    dry_run |-> dry_run]]
    /\ updated_products_data' = [updated_products_data EXCEPT ![r] = <<>>]
    /\ updated_count' = [updated_count EXCEPT ![r] = 0]
    /\ pc' = [pc EXCEPT ![r] = "fetch"]
    /\ UNCHANGED <<progVars, noArgs, stock, low_stock_products, idx, response,
                   stockAtFetch, writesAtFetch, appliedBy, failed, fetchError>>

\* updateLowStockProducts without arguments, as the scheduled job
\* update_low_stock sends it: mutate is entered with the defaults.
CallDefault(r) ==
    /\ pc[r] = "idle"
    /\ MODELS_AVAILABLE
    /\ noArgs' = [noArgs EXCEPT ![r] = TRUE]
    /\ args' = [args EXCEPT ![r] = DefaultArgs]
    /\ updated_products_data' = [updated_products_data EXCEPT ![r] = <<>>]
    /\ updated_count' = [updated_count EXCEPT ![r] = 0]
    /\ pc' = [pc EXCEPT ![r] = "fetch"]
    /\ UNCHANGED <<progVars, stock, low_stock_products, idx, response,
                   stockAtFetch, writesAtFetch, appliedBy, failed, fetchError>>

\* mutate is entered while the models could not be imported: mock response.
CallTestMode(r, threshold, increment_by, dry_run) ==
    /\ pc[r] = "idle"
    /\ ~MODELS_AVAILABLE
    /\ args' = [args EXCEPT ![r] = [threshold |-> threshold,
                                    increment_by |-> increment_by,
                                    dry_run |-> dry_run]]
    /\ response' = [response EXCEPT ![r] =
            UpdateLowStockProductsResponse(TRUE, TestModeMessage, 0, <<>>)]
    /\ pc' = [pc EXCEPT ![r] = "done"]
    /\ UNCHANGED <<progVars, noArgs, stock, low_stock_products, idx,
                   updated_products_data, updated_count,
                   stockAtFetch, writesAtFetch, appliedBy, failed, fetchError>>

\* The SELECT raises, in either mode: outer except.
FetchFail(r, cause) ==
    /\ pc[r] = "fetch"
    /\ fetchError' = [fetchError EXCEPT ![r] = cause]
    /\ response' = [response EXCEPT ![r] =
            FailureResponse(cause, updated_count[r], updated_products_data[r])]
    /\ pc' = [pc EXCEPT ![r] = "done"]
    /\ UNCHANGED <<progVars, noArgs, stock, args, low_stock_products, idx,
                   updated_products_data, updated_count,
                   stockAtFetch, writesAtFetch, appliedBy, failed>>

\* Dry run: one SELECT, then the projection of every fetched product and
\* the return; no further statement reaches the store.
DryRun(r) ==
    /\ pc[r] = "fetch"
    /\ args[r].dry_run
    /\ LET products == FindBelowThreshold(args[r].threshold)
           data == [i \in 1..Len(products) |->
                        DryOutcome(products[i], args[r].increment_by)]
       IN /\ low_stock_products' = [low_stock_products EXCEPT ![r] = products]
          /\ updated_products_data' = [updated_products_data EXCEPT ![r] = data]
          /\ stock' = DryRunStore(stock, products, args[r].increment_by)
          /\ response' = [response EXCEPT ![r] =
                UpdateLowStockProductsResponse(TRUE,
                    DryRunMessage(Len(data), args[r].threshold), Len(data), data)]
    /\ stockAtFetch' = [stockAtFetch EXCEPT ![r] = stock]
    /\ writesAtFetch' = [writesAtFetch EXCEPT ![r] = WriteCount]
    /\ pc' = [pc EXCEPT ![r] = "done"]
    /\ UNCHANGED <<progVars, noArgs, args, idx, updated_count, appliedBy, failed,
                   fetchError>>

\* Committed run: the for loop's first iteration evaluates the queryset.
Fetch(r) ==
    /\ pc[r] = "fetch"
    /\ ~args[r].dry_run
    /\ low_stock_products' = [low_stock_products EXCEPT ![r] =
                                  FindBelowThreshold(args[r].threshold)]
    /\ idx' = [idx EXCEPT ![r] = 1]
    /\ stockAtFetch' = [stockAtFetch EXCEPT ![r] = stock]
    /\ writesAtFetch' = [writesAtFetch EXCEPT ![r] = WriteCount]
    /\ pc' = [pc EXCEPT ![r] = "update"]
    /\ UNCHANGED <<progVars, noArgs, stock, args, updated_products_data,
                   updated_count, response, appliedBy, failed, fetchError>>

\* Product.objects.filter(id=product.id).update(stock=F('stock') + increment_by)
UpdateItem(r) ==
    /\ pc[r] = "update"
    /\ idx[r] <= Len(low_stock_products[r])
    /\ LET product == low_stock_products[r][idx[r]]
           matches == UpdateMatches(stock[product.id], args[r].threshold)
       IN /\ stock' = [stock EXCEPT ![product.id] =
                 IF matches
                 THEN AtomicIncrement(@, product.stock, args[r].increment_by)
                 ELSE @]
          /\ appliedBy' = [appliedBy EXCEPT ![r] =
                 IF matches THEN @ \cup {product.id} ELSE @]
    /\ pc' = [pc EXCEPT ![r] = "refresh"]
    /\ UNCHANGED <<progVars, noArgs, args, low_stock_products, idx,
                   updated_products_data, updated_count, response,
                   stockAtFetch, writesAtFetch, failed, fetchError>>

UpdateItemFail_outer(r) ==
    /\ pc[r] = "update"
    /\ idx[r] <= Len(low_stock_products[r])
    /\ failed' = [failed EXCEPT ![r] = @ \cup {low_stock_products[r][idx[r]].id}]
    /\ response' = [response EXCEPT ![r] =
            FailureResponse("database is locked", updated_count[r],
                            updated_products_data[r])]
    /\ pc' = [pc EXCEPT ![r] = "done"]
    /\ UNCHANGED <<progVars, noArgs, stock, args, low_stock_products, idx,
                   updated_products_data, updated_count,
                   stockAtFetch, writesAtFetch, appliedBy, fetchError>>

\* The UPDATE raises: per-item except, the store is untouched.
UpdateItemFail(r) ==
    /\ pc[r] = "update"
    /\ idx[r] <= Len(low_stock_products[r])
    /\ failed' = [failed EXCEPT ![r] = @ \cup {low_stock_products[r][idx[r]].id}]
    /\ idx' = [idx EXCEPT ![r] = AfterItemError(@, Len(low_stock_products[r]))]
    /\ UNCHANGED <<progVars, noArgs, stock, pc, args, low_stock_products,
                   updated_products_data, updated_count, response,
                   stockAtFetch, writesAtFetch, appliedBy, fetchError>>

\* product.refresh_from_db(), then the outcome record and the counter.
Refresh(r) ==
    /\ pc[r] = "refresh"
    /\ LET product == low_stock_products[r][idx[r]]
       IN updated_products_data' = [updated_products_data EXCEPT ![r] =
             Append(@, Outcome(product, product.stock, stock[product.id]))]
    /\ updated_count' = [updated_count EXCEPT ![r] = @ + 1]
    /\ idx' = [idx EXCEPT ![r] = @ + 1]
    /\ pc' = [pc EXCEPT ![r] = "update"]
    /\ UNCHANGED <<progVars, noArgs, stock, args, low_stock_products, response,
                   stockAtFetch, writesAtFetch, appliedBy, failed, fetchError>>

\* refresh_from_db raises after the UPDATE was applied: per-item except.
RefreshFail(r) ==
    /\ pc[r] = "refresh"
    /\ failed' = [failed EXCEPT ![r] = @ \cup {low_stock_products[r][idx[r]].id}]
    /\ idx' = [idx EXCEPT ![r] = AfterItemError(@, Len(low_stock_products[r]))]
    /\ pc' = [pc EXCEPT ![r] = "update"]
    /\ UNCHANGED <<progVars, noArgs, stock, args, low_stock_products,
                   updated_products_data, updated_count, response,
                   stockAtFetch, writesAtFetch, appliedBy, fetchError>>

Return_fetchedCount(r) ==
    /\ pc[r] = "update"
    /\ idx[r] > Len(low_stock_products[r])
    /\ response' = [response EXCEPT ![r] =
            UpdateLowStockProductsResponse(TRUE,
                CommittedMessage(Len(low_stock_products[r])),
                Len(low_stock_products[r]), updated_products_data[r])]
    /\ pc' = [pc EXCEPT ![r] = "done"]
    /\ UNCHANGED <<progVars, noArgs, stock, args, low_stock_products, idx,
                   updated_products_data, updated_count,
                   stockAtFetch, writesAtFetch, appliedBy, failed, fetchError>>

\* The loop is exhausted: message and committed summary.
Return(r) ==
    /\ pc[r] = "update"
    /\ idx[r] > Len(low_stock_products[r])
    /\ response' = [response EXCEPT ![r] =
            UpdateLowStockProductsResponse(TRUE, CommittedMessage(updated_count[r]),
                updated_count[r], updated_products_data[r])]
    /\ pc' = [pc EXCEPT ![r] = "done"]
    /\ UNCHANGED <<progVars, noArgs, stock, args, low_stock_products, idx,
                   updated_products_data, updated_count,
                   stockAtFetch, writesAtFetch, appliedBy, failed, fetchError>>

\* Query.resolve_low_stock_products(threshold), no order_by, and the
\* evaluation of the queryset it returns; [] without the models.
LowStockQuery(given, threshold) ==
    /\ query.state = "idle"
    /\ LET products == IF MODELS_AVAILABLE THEN FindBelowThreshold(threshold)
                       ELSE <<>>
       IN /\ query' = [state |-> "done", given |-> given, threshold |-> threshold,
                       result |-> products, stockAt |-> stock,
                       writesAt |-> WriteCount]
          /\ stock' = QueryStore(stock, products)
    /\ UNCHANGED <<MODELS_AVAILABLE, storeOrder, initStock, mutateVars, cronVars,
                   customerVars>>

QueryStep ==
    \/ \E t \in ThresholdValues : LowStockQuery(TRUE, t)
    \/ LowStockQuery(FALSE, QueryDefaultThreshold)

\* Any step of request r inside mutate.
RunStep(r) ==
    \/ \E t \in ThresholdValues, i \in IncrementValues, d \in BOOLEAN :
            Call(r, t, i, d)
    \/ CallDefault(r)
    \/ \E t \in ThresholdValues, i \in IncrementValues, d \in BOOLEAN :
            CallTestMode(r, t, i, d)
    \/ \E c \in FetchErrors : FetchFail(r, c)
    \/ DryRun(r)
    \/ Fetch(r)
    \/ UpdateItem(r)
    \/ UpdateItemFail(r)
    \/ Refresh(r)
    \/ RefreshFail(r)
    \/ Return(r)

Next == \E r \in Runs : RunStep(r)

Spec == Init /\ [][Next]_vars

\* A dry-run request, from its entry to its return.
DryRequestStep(r) ==
    \/ \E t \in ThresholdValues, i \in IncrementValues : Call(r, t, i, TRUE)
    \/ DryRun(r)

\* One lowStockProducts query next to one mutation request of any kind and
\* one dry-run request.
NextQuery == QueryStep \/ RunStep(1) \/ DryRequestStep(2)

SpecQuery == Init /\ [][NextQuery]_vars

\* ------------------------------------ the scheduled job (crm/cron.py)

\* Invocations of the job by the scheduler that the model follows.
MaxJobRuns == 2

HttpOk == 200

\* datetime.now().strftime(...): the clock is not modelled.
CurrentTime == "<time>"
Rule == "============================================================"
DashRule == "------------------------------------------------------------"
\* getattr(settings, 'GRAPHQL_URL', ...), no such setting.
GraphqlUrlSetting == "http://localhost:8000/graphql/"

\* What the job's call to the API comes to: `import requests` works or
\* not, requests.post raises post_exc or returns a response with a status
\* code and a body that is JSON or not; a JSON body carries the key
\* 'errors' (errors # <<>>) or the summary of the mutation under 'data'.
ApiOutcome(import_ok, post_exc, status_code, json_ok, errors, data) ==
    [import_ok |-> import_ok, post_exc |-> post_exc, status_code |-> status_code,
     json_ok |-> json_ok, errors |-> errors, data |-> data]

NoRequests == ApiOutcome(FALSE, None, 0, FALSE, <<>>, <<>>)
PostRaises(exc) == ApiOutcome(TRUE, exc, 0, FALSE, <<>>, <<>>)
HttpResponse(status_code, json_ok, errors, data) ==
    ApiOutcome(TRUE, None, status_code, json_ok, errors, data)

\* Exceptions of requests.post: the two the job names and one it does not.
PostExceptions == {"Timeout", "ConnectionError", "TooManyRedirects"}

\* 'errors' of a GraphQL response; locations = <<>> stands for an error
\* without the key 'locations'.
GraphQLErrorLists ==
    { <<[message |-> "Cannot query field", locations |-> <<[line |-> 3, column |-> 17]>>]>>,
      <<[message |-> "Email already exists", locations |-> <<>>]>> }

\* Summaries updateLowStockProducts returns to the job.
Summaries ==
    { UpdateLowStockProductsResponse(TRUE, CommittedMessage(0), 0, <<>>),
      UpdateLowStockProductsResponse(TRUE, CommittedMessage(1), 1,
          <<Outcome([id |-> 1, name |-> NameOf(1)], 0, DefaultIncrementBy)>>),
      FailureResponse("database is locked", 0, <<>>) }

ApiOutcomes ==
    {NoRequests}
    \cup {PostRaises(e) : e \in PostExceptions}
    \cup {HttpResponse(500, FALSE, <<>>, <<>>), HttpResponse(HttpOk, FALSE, <<>>, <<>>)}
    \cup {HttpResponse(HttpOk, TRUE, errs, <<>>) : errs \in GraphQLErrorLists}
    \cup {HttpResponse(HttpOk, TRUE, <<>>, <<s>>) : s \in Summaries}

\* str(e) of the exceptions the model raises.
ExceptionText(exc) ==
    CASE exc = "ImportError" -> "No module named 'requests'"
      [] exc = "TooManyRedirects" -> "Exceeded 30 redirects."
      [] exc = "JSONDecodeError" -> "Expecting value: line 1 column 1 (char 0)"
      [] OTHER -> exc

RECURSIVE Flatten(_)
Flatten(ss) == IF ss = <<>> THEN <<>> ELSE Head(ss) \o Flatten(Tail(ss))

\* Lines logged for one entry of result['errors'].
ErrorLines(error) ==
    <<"  - " \o error.message>>
    \o (IF error.locations # <<>>
        THEN <<"    at line " \o ToString(error.locations[1].line)
                \o ", column " \o ToString(error.locations[1].column)>>
        ELSE <<>>)

\* Line logged for one entry of updatedProducts (the bullet and the arrow
\* of the source are written in ASCII).
ProductLine(product) ==
    "  * " \o ToString(product.name) \o " (ID: " \o product.id \o "): Stock "
        \o ToString(product.old_stock) \o " -> " \o ToString(product.new_stock)
        \o " (+" \o ToString(product.new_stock - product.old_stock) \o ")"

StatusLine(success) == "Status: " \o (IF success THEN "SUCCESS" ELSE "FAILED")

\* Lines logged for the summary under data.updateLowStockProducts.
SummaryLines(data) ==
    <<StatusLine(data.success),
      "Message: " \o data.message,
      "Mutation Timestamp: " \o CurrentTime,
      "Total Updated: " \o ToString(data.updated_count), "">>
    \o (IF data.updated_products # <<>>
        THEN <<"Updated Products:", DashRule>>
                \o Map(data.updated_products, ProductLine)
        ELSE <<"No low-stock products were updated.">>)

HttpErrorLine(status_code) == "HTTP Error: " \o ToString(status_code)

\* The try block: the lines it appended to log_message, the exception that
\* left it (None: it ran to its end), and whether the local name `requests`
\* was bound when it was left.
TryBody(o) ==
    IF ~o.import_ok
    THEN [lines |-> <<>>, raised |-> "ImportError", requests |-> FALSE]
    ELSE IF o.post_exc # None
    THEN [lines |-> <<>>, raised |-> o.post_exc, requests |-> TRUE]
    ELSE IF o.status_code # HttpOk
    THEN [lines |-> <<HttpErrorLine(o.status_code), "Response: <text>...">>,
          raised |-> None, requests |-> TRUE]
    ELSE IF ~o.json_ok
    THEN [lines |-> <<>>, raised |-> "JSONDecodeError", requests |-> TRUE]
    ELSE IF o.errors # <<>>
    THEN [lines |-> <<"GraphQL Errors:">> \o Flatten(Map(o.errors, ErrorLines)),
          raised |-> None, requests |-> TRUE]
    ELSE [lines |-> SummaryLines(o.data[1]), raised |-> None, requests |-> TRUE]

\* The except clauses are tried in order and each evaluates its class
\* expression first: `requests.exceptions.Timeout` of the first clause reads
\* the function's local name `requests`, which `import requests` binds.
\* Unbound, the read raises UnboundLocalError and no clause is entered.
ExceptClauseReached(t) == t.requests

\* Lines the except clause that matches appends.
ExceptLines(raised) ==
    CASE raised = "Timeout" -> <<"ERROR: Request timed out after 30 seconds">>
      [] raised = "ConnectionError" ->
            <<"ERROR: Could not connect to GraphQL endpoint at " \o GraphqlUrlSetting>>
      [] raised = "ImportError" ->
            <<"ERROR: requests library not installed. Install with: pip install requests">>
      [] OTHER -> <<"ERROR: " \o ExceptionText(raised), "Traceback: <traceback>">>

LogHeader == <<"", Rule, "Low Stock Update - " \o CurrentTime, Rule>>
LogFooter == <<Rule, "Execution completed at: " \o CurrentTime, Rule, "">>

CompletionString == "Low stock update completed at " \o CurrentTime
Raised(exc) == "raised " \o exc

\* One invocation of update_low_stock whose call to the API comes to o.
update_low_stock(o) ==
    /\ job.runs < MaxJobRuns
    /\ LET t == TryBody(o)
       IN IF t.raised # None /\ ~ExceptClauseReached(t)
          THEN /\ job' = [runs |-> job.runs + 1, api |-> <<o>>,
                          result |-> Raised("UnboundLocalError"),
                          logBefore |-> Len(low_stock_log)]
               /\ UNCHANGED low_stock_log
          ELSE /\ low_stock_log' = Append(low_stock_log,
                        LogHeader \o t.lines
                        \o (IF t.raised # None THEN ExceptLines(t.raised) ELSE <<>>)
                        \o LogFooter)
               /\ job' = [runs |-> job.runs + 1, api |-> <<o>>,
                          result |-> CompletionString,
                          logBefore |-> Len(low_stock_log)]
    /\ UNCHANGED <<MODELS_AVAILABLE, stock, storeOrder, initStock, query, mutateVars,
                   customerVars>>

NextCron == \E o \in ApiOutcomes : update_low_stock(o)

SpecCron == Init /\ [][NextCron]_vars

\* ---------------------------------- createCustomer (CreateCustomer.mutate)

StoredEmails(table) == {table[i].email : i \in 1..Len(table)}

\* Customer.objects.filter(email=email).exists()
EmailExists(table, email) == email \in StoredEmails(table)

\* unique=True on Customer.email: the store refuses an INSERT whose e-mail
\* a row already has (IntegrityError).
UniqueViolation_none(table, email) == FALSE
UniqueViolation(table, email) == email \in StoredEmails(table)

\* Primary key the store gives the next row: rows are never deleted and a
\* refused INSERT takes no key.
NextCustomerId(table) == Len(table) + 1

CreatedMessage == "Customer created successfully"
ModelsMissingMessage == "Cannot create customer: Models not available"

\* mutate is entered with an e-mail; models available.
CreateCustomerCall(c, email) ==
    /\ create[c].pc = "idle"
    /\ MODELS_AVAILABLE
    /\ create' = [create EXCEPT ![c] = [@ EXCEPT !.pc = "exists", !.email = email]]
    /\ UNCHANGED <<MODELS_AVAILABLE, stock, storeOrder, initStock, query, mutateVars,
                   cronVars, customers>>

\* mutate without the models: the "cannot create" result, nothing stored.
CreateCustomerTestMode(c, email) ==
    /\ create[c].pc = "idle"
    /\ ~MODELS_AVAILABLE
    /\ create' = [create EXCEPT ![c] =
            [@ EXCEPT !.pc = "done", !.email = email, !.message = ModelsMissingMessage]]
    /\ UNCHANGED <<MODELS_AVAILABLE, stock, storeOrder, initStock, query, mutateVars,
                   cronVars, customers>>

\* The SELECT of exists(): a stored e-mail raises "Email already exists",
\* an unused one lets the request go on to save().
CheckEmail(c) ==
    /\ create[c].pc = "exists"
    /\ IF EmailExists(customers, create[c].email)
       THEN create' = [create EXCEPT ![c] =
                [@ EXCEPT !.pc = "done", !.error = "Email already exists",
                          !.taken = TRUE]]
       ELSE create' = [create EXCEPT ![c] =
                [@ EXCEPT !.pc = "save", !.passedCheck = TRUE]]
    /\ UNCHANGED <<MODELS_AVAILABLE, stock, storeOrder, initStock, query, mutateVars,
                   cronVars, customers>>

\* customer.save(): the INSERT, refused by the unique constraint or
\* applied, and the return of the new row's id.
SaveCustomer(c) ==
    /\ create[c].pc = "save"
    /\ IF UniqueViolation(customers, create[c].email)
       THEN /\ create' = [create EXCEPT ![c] =
                    [@ EXCEPT !.pc = "done", !.error = "IntegrityError",
                              !.taken = EmailExists(customers, create[c].email)]]
            /\ UNCHANGED customers
       ELSE LET id == NextCustomerId(customers)
            IN /\ customers' = Append(customers, [id |-> id, email |-> create[c].email])
               /\ create' = [create EXCEPT ![c] =
                    [@ EXCEPT !.pc = "done", !.id = <<id>>, !.message = CreatedMessage,
                              !.taken = EmailExists(customers, create[c].email),
                              !.stored = {id}]]
    /\ UNCHANGED <<MODELS_AVAILABLE, stock, storeOrder, initStock, query, mutateVars,
                   cronVars>>

CreateStep(c) ==
    \/ \E e \in Emails : CreateCustomerCall(c, e)
    \/ \E e \in Emails : CreateCustomerTestMode(c, e)
    \/ CheckEmail(c)
    \/ SaveCustomer(c)

NextCustomer == \E c \in Calls : CreateStep(c)

SpecCustomer == Init /\ [][NextCustomer]_vars

\* ------------------------------------------------------------- properties

Done(r) == pc[r] = "done"
Fetched(r) == stockAtFetch[r] # NoFetch
OutcomeIds(r) == {response[r].updated_products[i].id :
                      i \in 1..Len(response[r].updated_products)}
FetchedIds(r) == {low_stock_products[r][i].id : i \in 1..Len(low_stock_products[r])}

\* C1: a dry run never mutates the store: no step taken by a request whose
\* dry_run argument is true (entering mutate, the fetch with its projection,
\* a failing fetch) changes the stock of any product.
DryRunNeverMutates ==
    [][\A r \in Runs :
          (args'[r].dry_run /\ pc'[r] # pc[r]) => stock' = stock]_vars

DryRunNeverMutates_witness ==
    \E r \in Runs :
        /\ Done(r) /\ Fetched(r) /\ args[r].dry_run
        /\ args[r].increment_by # 0
        /\ Len(response[r].updated_products) > 0

\* C2: no lost updates: in every reachable state, under every interleaving
\* of the committed runs, each product's stock is its initial stock plus the
\* increment_by of every request whose UPDATE of that product succeeded.
NoLostUpdates ==
    \A p \in Products :
        stock[p] = initStock[p]
            + SumOver(Runs, [r \in Runs |->
                  IF p \in appliedBy[r] THEN args[r].increment_by ELSE 0])

NoLostUpdates_witness ==
    \E p \in Products :
        /\ \A r \in Runs : Done(r) /\ p \in appliedBy[r] /\ args[r].increment_by # 0
        /\ writesAtFetch[1] = 0 /\ writesAtFetch[2] = 0

\* C3 (as claimed): every outcome record of every returned summary has
\* new_stock = old_stock + increment_by, also when committed runs interleave.
\* Stated for requests with non-negative increments, where no stock ever
\* goes below zero.
ArithmeticCorrectness ==
    (\A q \in Runs : args[q].increment_by >= 0) =>
        \A r \in Runs :
            Done(r) =>
                \A i \in 1..Len(response[r].updated_products) :
                    response[r].updated_products[i].new_stock
                        = response[r].updated_products[i].old_stock
                              + args[r].increment_by

\* C4 (as claimed): in every run whose fetch succeeded, a product is among
\* the outcomes if and only if its stock at fetch time was below threshold.
EligibilityIff ==
    \A r \in Runs :
        (Done(r) /\ Fetched(r)) =>
            \A p \in Products :
                ToString(p) \in OutcomeIds(r)
                    <=> stockAtFetch[r][p] < args[r].threshold

\* C4 (amended): in every run whose fetch succeeded, a product is among the
\* outcomes if and only if its stock at fetch time was strictly below
\* threshold and its per-item update and re-read did not fail.
EligibilityExceptFailed ==
    \A r \in Runs :
        (Done(r) /\ Fetched(r)) =>
            \A p \in Products :
                ToString(p) \in OutcomeIds(r)
                    <=> (stockAtFetch[r][p] < args[r].threshold /\ p \notin failed[r])

EligibilityExceptFailed_witness ==
    \E r \in Runs :
        /\ Done(r) /\ Fetched(r)
        /\ \E p, q \in Products :
              /\ ToString(p) \in OutcomeIds(r)
              /\ stockAtFetch[r][q] = args[r].threshold
              /\ ToString(q) \notin OutcomeIds(r)

\* C5: partial-failure resilience: a committed run whose fetch returned N
\* products, of which the per-item step failed for the set F, returns
\* success, updated_count = N - |F| and exactly the non-failed products, in
\* fetch order; every fetched product was either updated or failed.
PartialFailureResilience ==
    \A r \in Runs :
        (Done(r) /\ Fetched(r) /\ ~args[r].dry_run) =>
            /\ response[r].success = TRUE
            /\ response[r].updated_count
                   = Len(low_stock_products[r]) - Cardinality(failed[r])
            /\ [i \in 1..Len(response[r].updated_products) |->
                    response[r].updated_products[i].id]
                 = Map(SelectSeq(low_stock_products[r],
                                 LAMBDA x : x.id \notin failed[r]),
                       LAMBDA x : ToString(x.id))
            /\ FetchedIds(r) \subseteq (appliedBy[r] \cup failed[r])

PartialFailureResilience_witness ==
    \E r \in Runs :
        /\ Done(r) /\ Fetched(r) /\ ~args[r].dry_run
        /\ \E i, j \in 1..Len(low_stock_products[r]) :
              /\ i < j
              /\ low_stock_products[r][i].id \in failed[r]
              /\ low_stock_products[r][j].id \notin failed[r]

\* C6: engine-level failure: a request whose fetch raised, in dry-run or in
\* committed mode, has returned a summary with success false, the message
\* that embeds the cause, a zero count and no outcome.
EngineLevelFailure ==
    \A r \in Runs :
        fetchError[r] # None =>
            /\ Done(r)
            /\ response[r].success = FALSE
            /\ response[r].message
                   = "Error updating low-stock products: " \o fetchError[r]
            /\ response[r].updated_count = 0
            /\ response[r].updated_products = <<>>

EngineLevelFailure_witness ==
    \E r1, r2 \in Runs :
        /\ fetchError[r1] # None /\ args[r1].dry_run
        /\ fetchError[r2] # None /\ ~args[r2].dry_run
        /\ fetchError[r1] # fetchError[r2]

\* C7 (as claimed): the stock of every product is non-negative in every
\* reachable state, whatever thresholds and increments the runs were given.
StockNonNegative == \A p \in Products : stock[p] >= 0

\* C8 (as claimed): a run with threshold 0 whose fetch saw only non-negative
\* stocks returns updated_count 0 and the fixed no-products message, in
\* dry-run and in committed mode alike.
ZeroThresholdFixedMessage ==
    \A r \in Runs :
        (Done(r) /\ Fetched(r) /\ args[r].threshold = 0
            /\ \A p \in Products : stockAtFetch[r][p] >= 0) =>
            /\ response[r].updated_count = 0
            /\ response[r].message = "No products found below the stock threshold"

\* C8 (amended): a run with threshold 0 whose fetch saw only non-negative
\* stocks returns updated_count 0 and no outcome; its message is the fixed
\* no-products message in committed mode and the dry-run message with count
\* 0 and threshold 0 in dry-run mode.
ZeroThresholdZeroCount ==
    \A r \in Runs :
        (Done(r) /\ Fetched(r) /\ args[r].threshold = 0
            /\ \A p \in Products : stockAtFetch[r][p] >= 0) =>
            /\ response[r].updated_count = 0
            /\ response[r].updated_products = <<>>
            /\ response[r].message
                  = IF args[r].dry_run
                    THEN "Dry run: Would update 0 products below stock threshold 0"
                    ELSE "No products found below the stock threshold"

ZeroThresholdZeroCount_witness ==
    \E r1, r2 \in Runs :
        /\ Done(r1) /\ Fetched(r1) /\ args[r1].threshold = 0 /\ args[r1].dry_run
        /\ Done(r2) /\ Fetched(r2) /\ args[r2].threshold = 0 /\ ~args[r2].dry_run
        /\ \E p \in Products : stockAtFetch[r1][p] = 0 /\ stockAtFetch[r2][p] = 0
        /\ \A p \in Products : stockAtFetch[r1][p] >= 0 /\ stockAtFetch[r2][p] >= 0

\* C9 (as claimed): a run with a negative threshold is rejected: whenever
\* the store itself raised nothing, the run has returned success false
\* without having fetched.
NegativeThresholdRejected ==
    \A r \in Runs :
        (Done(r) /\ MODELS_AVAILABLE /\ args[r].threshold < 0
            /\ fetchError[r] = None) =>
            /\ response[r].success = FALSE
            /\ ~Fetched(r)

\* C10: idempotence of dry run: two dry runs with the same threshold and
\* increment_by whose fetches have no UPDATE between them return the same
\* updated_count and the same outcome records in the same order.
DryRunIdempotent ==
    \A r1, r2 \in Runs :
        (/\ Done(r1) /\ Fetched(r1) /\ args[r1].dry_run
         /\ Done(r2) /\ Fetched(r2) /\ args[r2].dry_run
         /\ args[r1].threshold = args[r2].threshold
         /\ args[r1].increment_by = args[r2].increment_by
         /\ writesAtFetch[r1] = writesAtFetch[r2]) =>
            /\ response[r1].updated_count = response[r2].updated_count
            /\ response[r1].updated_products = response[r2].updated_products

DryRunIdempotent_witness ==
    \E r1, r2 \in Runs :
        /\ r1 # r2
        /\ Done(r1) /\ Fetched(r1) /\ args[r1].dry_run
        /\ Done(r2) /\ Fetched(r2) /\ args[r2].dry_run
        /\ args[r1].threshold = args[r2].threshold
        /\ args[r1].increment_by = args[r2].increment_by
        /\ args[r1].increment_by # 0
        /\ Len(response[r1].updated_products) >= 2

\* C11: a dry run predicts the committed run: a dry run and a committed run
\* with the same threshold and increment_by whose fetches saw the same store
\* (no UPDATE before either fetch, hence no writer but the committed run
\* itself), the committed run having no per-item failure, return the same
\* updated_count and the same sequence of outcome records.
DryRunPredictsCommitted ==
    \A r1, r2 \in Runs :
        (/\ Done(r1) /\ Fetched(r1) /\ args[r1].dry_run
         /\ Done(r2) /\ Fetched(r2) /\ ~args[r2].dry_run
         /\ args[r1].threshold = args[r2].threshold
         /\ args[r1].increment_by = args[r2].increment_by
         /\ writesAtFetch[r1] = 0 /\ writesAtFetch[r2] = 0
         /\ failed[r2] = {}) =>
            /\ response[r1].updated_count = response[r2].updated_count
            /\ response[r1].updated_products = response[r2].updated_products

DryRunPredictsCommitted_witness ==
    \E r1, r2 \in Runs :
        /\ Done(r1) /\ Fetched(r1) /\ args[r1].dry_run
        /\ Done(r2) /\ Fetched(r2) /\ ~args[r2].dry_run
        /\ args[r1].threshold = args[r2].threshold
        /\ args[r1].increment_by = args[r2].increment_by
        /\ args[r2].increment_by # 0
        /\ writesAtFetch[r1] = 0 /\ writesAtFetch[r2] = 0
        /\ failed[r2] = {}
        /\ Len(response[r2].updated_products) >= 2

\* C12: every dry run whose fetch succeeded returns success, an
\* updated_count equal to the number of products whose stock was below the
\* threshold at fetch time, and the message that states this count and the
\* threshold, a zero count included.
DryRunSummary ==
    \A r \in Runs :
        (Done(r) /\ Fetched(r) /\ args[r].dry_run) =>
            LET n == Cardinality({p \in Products :
                                     stockAtFetch[r][p] < args[r].threshold})
            IN /\ response[r].success = TRUE
               /\ response[r].updated_count = n
               /\ response[r].message
                     = "Dry run: Would update " \o ToString(n)
                         \o " products below stock threshold "
                         \o ToString(args[r].threshold)

DryRunSummary_witness ==
    \E r1, r2 \in Runs :
        /\ Done(r1) /\ Fetched(r1) /\ args[r1].dry_run
        /\ Done(r2) /\ Fetched(r2) /\ args[r2].dry_run
        /\ response[r1].updated_count = 0
        /\ response[r2].updated_count > 0

\* C13: defaults: a request without arguments runs as threshold 10,
\* increment_by 10, committed: once it has returned after a successful
\* fetch it has applied its UPDATE to no product whose stock at fetch time
\* was 10 or more and to every product below 10 whose per-item step did not
\* fail, and each of its UPDATEs added exactly 10.
DefaultsRun ==
    /\ \A r \in Runs :
          noArgs[r] =>
             /\ args[r] = [threshold |-> 10, increment_by |-> 10, dry_run |-> FALSE]
             /\ (Done(r) /\ Fetched(r)) =>
                   /\ appliedBy[r] \subseteq {p \in Products : stockAtFetch[r][p] < 10}
                   /\ {p \in Products : stockAtFetch[r][p] < 10}
                          \subseteq (appliedBy[r] \cup failed[r])
    /\ \A p \in Products :
          stock[p] = initStock[p]
              + SumOver(Runs, [r \in Runs |->
                    IF p \notin appliedBy[r] THEN 0
                    ELSE IF noArgs[r] THEN 10 ELSE args[r].increment_by])

DefaultsRun_witness ==
    \E r \in Runs :
        /\ noArgs[r] /\ Done(r) /\ Fetched(r) /\ failed[r] = {}
        /\ \E p, q \in Products :
              /\ p \in appliedBy[r] /\ stock[p] = initStock[p] + 10
              /\ stockAtFetch[r][q] = 10 /\ q \notin appliedBy[r]
              /\ stock[q] = initStock[q]

QueryIds == {query.result[i].id : i \in 1..Len(query.result)}

\* C14: the lowStockProducts query returns exactly the products whose stock
\* is strictly below its threshold (10 when the query names none), each
\* once; resolving it changes no stock; and a dry run with the same
\* threshold that fetched from the same store state reports the same set of
\* product ids.
QueryReadOnly ==
    /\ [](  (query.state = "done" /\ MODELS_AVAILABLE) =>
              /\ QueryIds = {p \in Products : query.stockAt[p] < query.threshold}
              /\ Len(query.result) = Cardinality(QueryIds)
              /\ ~query.given => query.threshold = 10
              /\ \A r \in Runs :
                    (/\ Done(r) /\ Fetched(r) /\ args[r].dry_run
                     /\ args[r].threshold = query.threshold
                     /\ stockAtFetch[r] = query.stockAt) =>
                        OutcomeIds(r) = {ToString(p) : p \in QueryIds}  )
    /\ [][query' # query => stock' = stock]_vars

QueryReadOnly_witness ==
    /\ query.state = "done" /\ MODELS_AVAILABLE
    /\ query.writesAt > 0
    /\ QueryIds # {} /\ QueryIds # Products
    /\ \E p \in Products : query.stockAt[p] = query.threshold
    /\ \E r \in Runs :
          /\ Done(r) /\ Fetched(r) /\ args[r].dry_run
          /\ args[r].threshold = query.threshold
          /\ stockAtFetch[r] = query.stockAt

\* C15 (as claimed): accounting of a committed run: every product whose
\* stock the run changed (its UPDATE was applied, with a positive
\* increment) is among the outcomes of the summary it returned, and the
\* stock the run added is updated_count * increment_by.
CommittedAccounting ==
    \A r \in Runs :
        (Done(r) /\ Fetched(r) /\ ~args[r].dry_run /\ args[r].increment_by > 0) =>
            /\ \A p \in appliedBy[r] : ToString(p) \in OutcomeIds(r)
            /\ Cardinality(appliedBy[r]) * args[r].increment_by
                   = response[r].updated_count * args[r].increment_by

\* C16 (as claimed): a committed run returns the no-products message only
\* when its fetch returned no product.
NoProductsMessageOnlyWhenEmpty ==
    \A r \in Runs :
        (/\ Done(r) /\ Fetched(r) /\ ~args[r].dry_run
         /\ response[r].message = "No products found below the stock threshold") =>
            Len(low_stock_products[r]) = 0

\* C17: runs are neither serialized nor deduplicated: when both committed
\* runs fetched product p before any UPDATE had changed it and no per-item
\* step failed, both have applied their increment to p, which ends at its
\* initial stock plus both increments, whatever its stock was when the
\* second UPDATE arrived.
NotDeduplicated ==
    \A p \in Products :
        (\A r \in Runs :
            /\ Done(r) /\ Fetched(r) /\ ~args[r].dry_run
            /\ args[r].increment_by # 0
            /\ p \in FetchedIds(r)
            /\ stockAtFetch[r][p] = initStock[p]
            /\ failed[r] = {}) =>
                /\ \A r \in Runs : p \in appliedBy[r]
                /\ stock[p] = initStock[p] + args[1].increment_by
                                           + args[2].increment_by

\* Both runs restock p although the first increment had already lifted it
\* to the threshold, and run 2 fetched while run 1 had applied one UPDATE of
\* its batch of two.
NotDeduplicated_witness ==
    \E p \in Products :
        /\ \A r \in Runs :
              /\ Done(r) /\ Fetched(r) /\ ~args[r].dry_run
              /\ args[r].threshold = 10 /\ args[r].increment_by = 10
              /\ p \in FetchedIds(r)
              /\ stockAtFetch[r][p] = initStock[p]
              /\ failed[r] = {}
        /\ initStock[p] + 10 >= 10
        /\ stock[p] = initStock[p] + 20
        /\ Len(low_stock_products[1]) = 2
        /\ writesAtFetch[1] = 0
        /\ writesAtFetch[2] = 1
        /\ stockAtFetch[2] # initStock

RECURSIVE IsSubseq(_, _)
IsSubseq(a, b) ==
    IF a = <<>> THEN TRUE
    ELSE IF b = <<>> THEN FALSE
    ELSE IF Head(a) = Head(b) THEN IsSubseq(Tail(a), Tail(b))
    ELSE IsSubseq(a, Tail(b))

IdsOf(s) == [i \in 1..Len(s) |-> s[i].id]
NoRepeat(s) == \A i, j \in 1..Len(s) : s[i] = s[j] => i = j

\* C18: ordering and single processing: once a run has fetched, its
\* eligible sequence never changes, is sorted by name and holds no product
\* twice; the loop position only moves forward one product at a time; an
\* UPDATE of the run touches only the product at the loop position, which
\* the run has not updated before; and the outcomes, while they accumulate
\* and in the returned summary, are a subsequence of the fetched sequence
\* without repeated id.
OrderedSingleProcessing ==
    /\ [](\A r \in Runs :
            Fetched(r) =>
               /\ OrderedByName(IdsOf(low_stock_products[r]))
               /\ NoRepeat(IdsOf(low_stock_products[r]))
               /\ NoRepeat(IdsOf(updated_products_data[r]))
               /\ IsSubseq(IdsOf(updated_products_data[r]),
                           [i \in 1..Len(low_stock_products[r]) |->
                               ToString(low_stock_products[r][i].id)])
               /\ Done(r) => response[r].updated_products = updated_products_data[r])
    /\ [][\A r \in Runs :
            /\ Fetched(r) =>
                  /\ low_stock_products'[r] = low_stock_products[r]
                  /\ idx'[r] \in {idx[r], idx[r] + 1}
            /\ (pc[r] = "update" /\ pc'[r] = "refresh") =>
                  LET p == low_stock_products[r][idx[r]].id
                  IN /\ p \notin appliedBy[r]
                     /\ appliedBy'[r] = appliedBy[r] \cup {p}
                     /\ \A q \in Products \ {p} : stock'[q] = stock[q]
            /\ pc'[r] = pc[r] => appliedBy'[r] = appliedBy[r]]_vars

OrderedSingleProcessing_witness ==
    \E r \in Runs :
        /\ Done(r) /\ Fetched(r) /\ ~args[r].dry_run
        /\ storeOrder[1] # 1
        /\ Len(response[r].updated_products) = 2
        /\ response[r].updated_products[1].id = ToString(storeOrder[1])
        /\ Cardinality(appliedBy[r]) = 2

\* C19: in every summary mutate has returned, on the test-mode, dry-run,
\* committed and failure paths alike, updated_count is the length of
\* updated_products.
CountMatchesOutcomes ==
    \A r \in Runs :
        Done(r) => response[r].updated_count = Len(response[r].updated_products)

CountMatchesOutcomes_witness ==
    \E r1, r2 \in Runs :
        /\ Done(r1) /\ Fetched(r1) /\ ~args[r1].dry_run
        /\ failed[r1] # {} /\ response[r1].updated_count = 1
        /\ Done(r2) /\ fetchError[r2] # None

\* C20: a run that has returned success false has applied no UPDATE: its
\* summary has a zero count and no outcome, and every product's stock is
\* its initial stock plus the increments of the other runs only.
FailedRunChangedNothing ==
    \A r \in Runs :
        (Done(r) /\ response[r].success = FALSE) =>
            /\ response[r].updated_count = 0
            /\ response[r].updated_products = <<>>
            /\ appliedBy[r] = {}
            /\ \A p \in Products :
                  stock[p] = initStock[p]
                      + SumOver(Runs \ {r}, [q \in Runs |->
                            IF p \in appliedBy[q] THEN args[q].increment_by ELSE 0])

FailedRunChangedNothing_witness ==
    \E r \in Runs :
        /\ Done(r) /\ response[r].success = FALSE /\ ~args[r].dry_run
        /\ \E p \in Products : stock[p] # initStock[p]

\* ------------------------------------------------------ the scheduled job

Range(s) == {s[i] : i \in 1..Len(s)}

\* The line of a log block that tells which outcome the call to the API had.
OutcomeLine(o) ==
    IF ~o.import_ok
    THEN "ERROR: requests library not installed. Install with: pip install requests"
    ELSE IF o.post_exc = "Timeout" THEN "ERROR: Request timed out after 30 seconds"
    ELSE IF o.post_exc = "ConnectionError"
    THEN "ERROR: Could not connect to GraphQL endpoint at " \o GraphqlUrlSetting
    ELSE IF o.post_exc # None THEN "ERROR: " \o ExceptionText(o.post_exc)
    ELSE IF o.status_code # HttpOk THEN HttpErrorLine(o.status_code)
    ELSE IF ~o.json_ok THEN "ERROR: " \o ExceptionText("JSONDecodeError")
    ELSE IF o.errors # <<>> THEN "GraphQL Errors:"
    ELSE StatusLine(o.data[1].success)

\* The last invocation appended exactly one block, the block tells the
\* outcome, and the job returned its completion string.
JobLoggedAndReturned ==
    /\ job.result = CompletionString
    /\ Len(low_stock_log) = job.logBefore + 1
    /\ OutcomeLine(job.api[1]) \in Range(low_stock_log[Len(low_stock_log)])

\* C21: update_low_stock is fault-opaque: whatever its call to the API comes
\* to (summary, GraphQL errors, non-200 status, timeout, connection error,
\* requests not importable, any other exception), the invocation appends
\* exactly one block to the low-stock log, with a line describing that
\* outcome, and returns its completion string without raising.
JobFaultOpaque == job.runs > 0 => JobLoggedAndReturned

\* Every outcome but the failed import is logged and returned from.
JobFaultOpaqueWhenImported ==
    (job.runs > 0 /\ job.api[1].import_ok) => JobLoggedAndReturned

\* An invocation with requests importable has gone through each branch.
JobFaultOpaqueWhenImported_witness ==
    /\ job.runs = MaxJobRuns
    /\ job.api[1].import_ok
    /\ job.api[1].post_exc = "TooManyRedirects"
    /\ Len(low_stock_log) = MaxJobRuns

\* ---------------------------------------------------------- createCustomer

CreateDone(c) == create[c].pc = "done"

NoDuplicateEmails ==
    \A i, j \in 1..Len(customers) : customers[i].email = customers[j].email => i = j

\* The request failed and stored nothing.
CreateFailed(c) ==
    /\ create[c].error # None
    /\ create[c].id = <<>>
    /\ create[c].stored = {}

\* The request stored exactly one customer, with its e-mail, and returned
\* that customer's id with the success message.
CreateSucceeded(c) ==
    /\ create[c].error = None
    /\ Cardinality(create[c].stored) = 1
    /\ create[c].message = CreatedMessage
    /\ \E i \in 1..Len(customers) :
            /\ customers[i].email = create[c].email
            /\ create[c].stored = {customers[i].id}
            /\ create[c].id = <<customers[i].id>>

\* C22: after any interleaving of createCustomer requests no two stored
\* customers have the same e-mail; a request whose e-mail belongs to a
\* stored customer when the request's last statement reaches the store
\* fails with an error and stores nothing, and a request whose e-mail is
\* unused then stores exactly one customer and returns its id with
\* "Customer created successfully".
EmailUniqueness ==
    /\ NoDuplicateEmails
    /\ \A c \in Calls :
            (CreateDone(c) /\ MODELS_AVAILABLE) =>
                IF create[c].taken THEN CreateFailed(c) ELSE CreateSucceeded(c)

\* Two requests for one e-mail both passed exists(); one stored the
\* customer, the store refused the other; a third request for that e-mail
\* was refused by exists().
EmailUniqueness_witness ==
    \E c, d, e \in Calls :
        /\ c # d /\ d # e /\ c # e
        /\ CreateDone(c) /\ CreateDone(d) /\ CreateDone(e)
        /\ create[c].email = create[d].email
        /\ create[e].email = create[c].email
        /\ create[c].passedCheck /\ create[d].passedCheck
        /\ CreateSucceeded(c)
        /\ create[d].error = "IntegrityError"
        /\ create[e].error = "Email already exists"

====
